---------------------------- MODULE Spec2Model ----------------------------
(***************************************************************************)
(* A model of src/renderer.rs: the Renderer (camera uniform resources,     *)
(* binding-set layouts, Forward Pass), the scene snapshot built by         *)
(* create_scene, and the commands recorded by render / ForwardPass.execute.*)
(*                                                                         *)
(* GPU objects are modelled by what the code puts into their descriptors:  *)
(* a depth texture by its size and format, a pipeline by its layout and    *)
(* colour target, a bind group by its layout and the uniform it binds.     *)
(* Buffers and bind groups allocated from the device carry a fresh id.     *)
(***************************************************************************)
EXTENDS Integers, Sequences, FiniteSets, TLC

VARIABLES
    renderer,      \* the Renderer struct (renderer.rs:15-20)
    cameraBuffer,  \* GPU contents of renderer.view_proj.buffer
    snapshots,     \* the RendererScene values returned by create_scene so far
    sources,       \* history: the Scene each snapshot was created from
    nextId,        \* the device's next fresh resource id
    frame,         \* history: the latest render call since the latest resize
    panicked,      \* an index-out-of-bounds panic unwound the latest render call
    lastOp,        \* history: the operation that produced this state
    surface_conf,  \* history: the configuration given to the latest new/resize
    init_conf      \* history: the configuration given to new

vars == << renderer, cameraBuffer, snapshots, sources, nextId, frame, panicked,
           lastOp, surface_conf, init_conf >>

---------------------------------------------------------------------------
(* Bounds and input sets *)

MaxSnapshots == 2

Conf(w, h, f) == [width |-> w, height |-> h, format |-> f]

\* Surface configurations handed to new and resize.
Confs ==
    { Conf(800, 600, "Bgra8UnormSrgb"), Conf(400, 300, "Bgra8UnormSrgb"),
      Conf(400, 300, "Rgba8Unorm"),     Conf(600, 600, "Rgba8Unorm") }

\* Mat4 values: the identity and the matrices the inputs use.
Identity   == [kind |-> "identity"]
LookAt     == [kind |-> "look_at"]
TranslateX == [kind |-> "translation"]

Triangle == [vertices |-> 3, indices |-> 3]
Quad     == [vertices |-> 4, indices |-> 6]

None == [some |-> FALSE, albedo |-> "none"]
Some(c) == [some |-> TRUE, albedo |-> c]

Object(ms, mats, t) == [meshes |-> ms, materials |-> mats, transform |-> t]

TwoObjects ==
    << Object(<<Triangle>>, <<Some("red")>>, Identity),
       Object(<<Triangle>>, <<Some("red")>>, TranslateX) >>

\* Object lists of the input scenes: the empty scene, one triangle without a
\* material override, two objects sharing a mesh under different transforms,
\* one object with two submeshes, and two single-object scenes whose meshes
\* and materials sequences differ in length (nothing in create_scene's input
\* type ties the two lengths together).
ObjectLists ==
    { << >>,
      << Object(<<Triangle>>, <<None>>, Identity) >>,
      TwoObjects,
      << Object(<<Triangle, Quad>>, <<Some("red"), None>>, TranslateX) >>,
      << Object(<<Triangle, Quad>>, <<Some("red")>>, Identity) >>,
      << Object(<<Triangle>>, <<None, Some("red")>>, Identity) >> }

\* The input scenes: every object list under the identity view, and the
\* two-object scene under a second view.
Scenes ==
    { [objects |-> o, view |-> Identity] : o \in ObjectLists }
    \cup { [objects |-> TwoObjects, view |-> LookAt] }

---------------------------------------------------------------------------
(* Uniform descriptors and mesh buffers (opaque collaborators) *)

DefaultView == Identity
DefaultProj == Identity
DefaultAlbedo == "default_albedo"

RECURSIVE Gcd(_, _)
Gcd(a, b) == IF b = 0 THEN a ELSE Gcd(b, a % b)

\* surface_conf.width as f32 / surface_conf.height as f32
Aspect(conf) ==
    LET g == Gcd(conf.width, conf.height)
    IN  << conf.width \div g, conf.height \div g >>

\* Mat4::perspective_lh(45 degrees, aspect, 0.1, 100.0)
perspective_lh(aspect) ==
    [kind |-> "perspective_lh", fov |-> 45, aspect |-> aspect,
     near |-> "0.1", far |-> "100.0"]

\* Option<Material>::unwrap_or_default().0
unwrap_or_default(m) == IF m.some THEN m.albedo ELSE DefaultAlbedo

\* <uniform>.create_bind_group(device, layout): a buffer holding the uniform
\* and a bind group over it under the given layout.
create_bind_group(uniform, layout, id) ==
    [id |-> id, layout |-> layout, uniform |-> uniform]

\* Mesh::create_buffers(device)
create_buffers(m, id) == [vbuf |-> id, ibuf |-> id + 1, nelems |-> m.indices]

---------------------------------------------------------------------------
(* Forward Pass construction (ForwardPass::new) *)

\* A pipeline layout with the transform and material slots exchanged.
bind_group_layouts_swapped(view_proj_layout, transform_layout, material_layout) ==
    << view_proj_layout, material_layout, transform_layout >>

\* bind_group_layouts of the pipeline layout: binding-set slots 0, 1, 2
bind_group_layouts(view_proj_layout, transform_layout, material_layout) ==
    << view_proj_layout, transform_layout, material_layout >>

depth_format == "Depth32Float"

ForwardPass_new(conf, view_proj_layout, transform_layout, material_layout) ==
    [ pipeline |->
        [ layout  |-> bind_group_layouts(view_proj_layout, transform_layout,
                                         material_layout),
          targets |-> << conf.format >>,
          depth_stencil |-> [ format |-> depth_format,
                              depth_write_enabled |-> TRUE,
                              depth_compare |-> "Less" ] ],
      depth_texture_view |->
        [ width |-> conf.width, height |-> conf.height,
          depth_or_array_layers |-> 1, format |-> depth_format ] ]

---------------------------------------------------------------------------
(* Renderer::new and Renderer::resize *)

\* The Renderer built by new; the camera buffer takes id, its bind group id + 1.
Renderer_new(conf, id) ==
    LET view_proj_data   == [view |-> DefaultView,
                             proj |-> perspective_lh(Aspect(conf))]
        view_proj_layout == "view_proj_layout"
        transform_layout == "transform_layout"
        material_layout  == "material_layout"
    IN  [ view_proj |->
            [ data   |-> view_proj_data,
              buffer |-> id,
              layout |-> view_proj_layout,
              bind_group |-> create_bind_group([buffer |-> id],
                                               view_proj_layout, id + 1) ],
          forward_pass |-> ForwardPass_new(conf, view_proj_layout,
                                           transform_layout, material_layout),
          transform_layout |-> transform_layout,
          material_layout  |-> material_layout ]

\* A resize that keeps the old Forward Pass.
Renderer_resize_stale(r, conf) == r

\* A resize that also recomputes the projection for the new aspect ratio.
Renderer_resize_reproject(r, conf) ==
    [ r EXCEPT !.forward_pass =
                   ForwardPass_new(conf, r.view_proj.layout,
                                   r.transform_layout, r.material_layout),
               !.view_proj.data.proj = perspective_lh(Aspect(conf)) ]

\* The Renderer after resize: only forward_pass is assigned.
Renderer_resize(r, conf) ==
    [ r EXCEPT !.forward_pass =
                   ForwardPass_new(conf, r.view_proj.layout,
                                   r.transform_layout, r.material_layout) ]

---------------------------------------------------------------------------
(* Renderer::create_scene *)

RECURSIVE object_meshes(_, _)
\* object.meshes.iter().map(|m| m.create_buffers(device)).collect()
object_meshes(ms, id) ==
    IF ms = << >> THEN << >>
    ELSE << create_buffers(Head(ms), id) >> \o object_meshes(Tail(ms), id + 2)

RECURSIVE object_materials(_, _, _)
\* object.materials.iter().map(|m| MaterialUniform{..}.create_bind_group(..)).collect()
object_materials(r, mats, id) ==
    IF mats = << >> THEN << >>
    ELSE << create_bind_group([albedo |-> unwrap_or_default(Head(mats))],
                              r.material_layout, id) >>
         \o object_materials(r, Tail(mats), id + 1)

\* The closure mapping one SceneObject to its RendererSceneObject.
snapshot_object(r, object, id) ==
    LET mid == id + 2 * Len(object.meshes)
        tid == mid + Len(object.materials)
    IN  [ meshes    |-> object_meshes(object.meshes, id),
          materials |-> object_materials(r, object.materials, mid),
          transform |-> create_bind_group([model |-> object.transform],
                                          r.transform_layout, tid) ]

\* Device resources one SceneObject's snapshot allocates.
object_resources(object) == 2 * Len(object.meshes) + Len(object.materials) + 1

RECURSIVE snapshot_objects(_, _, _)
\* scene.objects.iter().map(..).collect()
snapshot_objects(r, objs, id) ==
    IF objs = << >> THEN << >>
    ELSE << snapshot_object(r, Head(objs), id) >>
         \o snapshot_objects(r, Tail(objs), id + object_resources(Head(objs)))

RECURSIVE scene_resources(_)
scene_resources(objs) ==
    IF objs = << >> THEN 0
    ELSE object_resources(Head(objs)) + scene_resources(Tail(objs))

\* A create_scene that hands out the resources of an earlier call again.
Renderer_create_scene_cached(r, scene, id) ==
    [ objects |-> snapshot_objects(r, scene.objects, r.view_proj.bind_group.id + 1),
      view    |-> scene.view ]

\* The RendererScene returned by create_scene, allocating from id upwards.
Renderer_create_scene(r, scene, id) ==
    [ objects |-> snapshot_objects(r, scene.objects, id),
      view    |-> scene.view ]

---------------------------------------------------------------------------
(* ForwardPass::execute and Renderer::render *)

\* One queue or render-pass command.
Cmd(op, slot, arg) == [op |-> op, slot |-> slot, arg |-> arg]

\* The body of the inner loop for mesh i of object o (1-based here).
mesh_commands(o, i) ==
    << Cmd("set_bind_group", 2, o.materials[i]),
       Cmd("set_vertex_buffer", 0, [buffer |-> o.meshes[i].vbuf]),
       Cmd("set_index_buffer", 0, [buffer |-> o.meshes[i].ibuf,
                                   format |-> "Index::format"]),
       Cmd("draw_indexed", 0, [indices |-> << 0, o.meshes[i].nelems >>,
                               base_vertex |-> 0, instances |-> << 0, 1 >>]) >>

RECURSIVE execute_meshes(_, _)
\* for (i, m) in o.meshes.iter().enumerate(): o.materials[i] panics when i is
\* not an index of o.materials, and the commands recorded so far remain.
execute_meshes(o, i) ==
    IF i > Len(o.meshes) THEN [cmds |-> << >>, panicked |-> FALSE]
    ELSE IF i > Len(o.materials) THEN [cmds |-> << >>, panicked |-> TRUE]
    ELSE LET rest == execute_meshes(o, i + 1)
         IN  [cmds |-> mesh_commands(o, i) \o rest.cmds,
              panicked |-> rest.panicked]

RECURSIVE execute_objects(_)
\* for o in &scene.objects
execute_objects(objs) ==
    IF objs = << >> THEN [cmds |-> << >>, panicked |-> FALSE]
    ELSE LET o    == Head(objs)
             m    == execute_meshes(o, 1)
             rest == IF m.panicked THEN [cmds |-> << >>, panicked |-> TRUE]
                     ELSE execute_objects(Tail(objs))
         IN  [cmds |-> << Cmd("set_bind_group", 1, o.transform) >>
                       \o m.cmds \o rest.cmds,
              panicked |-> rest.panicked]

\* The commands execute records on the encoder, and whether it panicked.
ForwardPass_execute(fp, color_texture_view, view_proj_bind_group, scene) ==
    LET body == execute_objects(scene.objects)
    IN  [cmds |->
           << Cmd("begin_render_pass", 0,
                  [ color |-> [ view |-> color_texture_view,
                                load |-> "Clear(BLACK)", store |-> TRUE ],
                    depth |-> [ view |-> fp.depth_texture_view,
                                load |-> "Clear(1.0)", store |-> TRUE ] ]),
              Cmd("set_pipeline", 0, fp.pipeline),
              Cmd("set_bind_group", 0, view_proj_bind_group) >>
           \o body.cmds,
         panicked |-> body.panicked]

\* A uniform that takes the projection from Default instead of vp.data.
render_uniform_default(vp, scene) ==
    [view |-> scene.view, proj |-> DefaultProj]

\* ViewProjUniform { view: scene.view, ..vp.data }
render_uniform(vp, scene) ==
    [view |-> scene.view, proj |-> vp.data.proj]

\* A render that records the pass before it writes the camera buffer.
Renderer_render_late_write(r, color_texture_view, scene) ==
    LET vp == r.view_proj
        ex == ForwardPass_execute(r.forward_pass, color_texture_view,
                                  vp.bind_group, scene)
    IN  [ trace |-> ex.cmds
                    \o << Cmd("write_buffer", 0,
                              [buffer |-> vp.buffer,
                               data |-> render_uniform(vp, scene)]) >>,
          panicked |-> ex.panicked ]

\* A render that skips the camera write when the buffer already holds the view.
Renderer_render_skip_write(r, color_texture_view, scene) ==
    LET vp == r.view_proj
        ex == ForwardPass_execute(r.forward_pass, color_texture_view,
                                  vp.bind_group, scene)
    IN  [ trace |-> ( IF cameraBuffer.view = scene.view THEN << >>
                      ELSE << Cmd("write_buffer", 0,
                                  [buffer |-> vp.buffer,
                                   data |-> render_uniform(vp, scene)]) >> )
                    \o ex.cmds,
          panicked |-> ex.panicked ]

\* The queue write and the encoder commands of one render call, in issue order.
Renderer_render(r, color_texture_view, scene) ==
    LET vp == r.view_proj
        ex == ForwardPass_execute(r.forward_pass, color_texture_view,
                                  vp.bind_group, scene)
    IN  [ trace |-> << Cmd("write_buffer", 0,
                           [buffer |-> vp.buffer,
                            data |-> render_uniform(vp, scene)]) >>
                    \o ex.cmds,
          panicked |-> ex.panicked ]

\* The contents of buffer after the queue writes of a trace, from contents.
RECURSIVE buffer_after(_, _, _)
buffer_after(tr, buffer, contents) ==
    IF tr = << >> THEN contents
    ELSE buffer_after(Tail(tr), buffer,
                      IF Head(tr).op = "write_buffer" /\ Head(tr).arg.buffer = buffer
                      THEN Head(tr).arg.data ELSE contents)

---------------------------------------------------------------------------
(* The state machine *)

Init ==
    \E conf \in Confs :
        /\ renderer = Renderer_new(conf, 1)
        /\ cameraBuffer = Renderer_new(conf, 1).view_proj.data
        /\ nextId = Renderer_new(conf, 1).view_proj.bind_group.id + 1
        /\ snapshots = << >>
        /\ sources = << >>
        /\ frame = << >>
        /\ panicked = FALSE
        /\ lastOp = "new"
        /\ surface_conf = conf
        /\ init_conf = conf

Resize(conf) ==
    /\ ~panicked
    /\ renderer' = Renderer_resize(renderer, conf)
    /\ surface_conf' = conf
    /\ frame' = << >>
    /\ lastOp' = "resize"
    /\ UNCHANGED << cameraBuffer, snapshots, sources, nextId, panicked, init_conf >>

CreateScene(scene) ==
    /\ ~panicked
    /\ Len(snapshots) < MaxSnapshots
    /\ snapshots' = Append(snapshots, Renderer_create_scene(renderer, scene, nextId))
    /\ sources' = Append(sources, scene)
    /\ nextId' = nextId + scene_resources(scene.objects)
    /\ lastOp' = "create_scene"
    /\ UNCHANGED << renderer, cameraBuffer, frame, panicked, surface_conf,
                    init_conf >>

\* frame counts the render calls made in a row on one snapshot, up to two.
Render(i) ==
    /\ ~panicked
    /\ LET out == Renderer_render(renderer, "color_texture_view", snapshots[i])
           buf == buffer_after(out.trace, renderer.view_proj.buffer, cameraBuffer)
       IN  /\ cameraBuffer' = buf
           /\ panicked' = out.panicked
           /\ frame' = << [ snap   |-> i,
                            n      |-> IF frame # << >> /\ frame[1].snap = i
                                       THEN 2 ELSE 1,
                            trace  |-> out.trace,
                            buffer |-> buf ] >>
    /\ lastOp' = "render"
    /\ UNCHANGED << renderer, snapshots, sources, nextId, surface_conf, init_conf >>

Next ==
    \/ \E conf \in Confs : Resize(conf)
    \/ \E scene \in Scenes : CreateScene(scene)
    \/ \E i \in DOMAIN snapshots : Render(i)

Spec == Init /\ [][Next]_vars

---------------------------------------------------------------------------
(* Vocabulary of the properties *)

\* A render call produced this state.
Rendering == lastOp = "render"

\* The recording of that render call, and the snapshot it was given.
LastTrace == frame[1].trace
LastScene == snapshots[frame[1].snap]

\* Positions of the commands of kind op in a recording.
Positions(tr, op) == { k \in DOMAIN tr : tr[k].op = op }

\* The projection Renderer::new computes for the configuration it was given.
ConstructionProj == perspective_lh(Aspect(init_conf))

IsPassCommand(c) == c.op \notin {"write_buffer", "begin_render_pass"}

\* The commands recorded inside the render pass.
PassCommands(tr) == SelectSeq(tr, IsPassCommand)

---------------------------------------------------------------------------
(* C1 *)

\* C1: every render call uses a Forward Pass whose depth target has the width
\* and height, and whose pipeline has the colour-target format, of the surface
\* configuration passed to the most recent new or resize call.
ForwardPassMatchesSurface ==
    Rendering =>
        /\ Positions(LastTrace, "begin_render_pass") # {}
        /\ Positions(LastTrace, "set_pipeline") # {}
        /\ \A k \in Positions(LastTrace, "begin_render_pass") :
              /\ LastTrace[k].arg.depth.view.width = surface_conf.width
              /\ LastTrace[k].arg.depth.view.height = surface_conf.height
        /\ \A k \in Positions(LastTrace, "set_pipeline") :
              LastTrace[k].arg.targets = << surface_conf.format >>

\* A render call after a resize that changed the size and the format.
RenderAfterResize ==
    /\ Rendering
    /\ surface_conf.width # init_conf.width
    /\ surface_conf.height # init_conf.height
    /\ surface_conf.format # init_conf.format

---------------------------------------------------------------------------
(* C2 *)

\* C2: for every SceneObject of every Scene passed to create_scene, the
\* snapshot object has as many material binding sets as the object has meshes,
\* and each material slot whose optional colour is absent holds the default
\* albedo.
MaterialsMatchMeshes ==
    \A s \in DOMAIN snapshots :
        /\ Len(snapshots[s].objects) = Len(sources[s].objects)
        /\ \A k \in DOMAIN sources[s].objects :
              /\ Len(snapshots[s].objects[k].materials)
                    = Len(sources[s].objects[k].meshes)
              /\ \A j \in DOMAIN sources[s].objects[k].materials :
                    ~sources[s].objects[k].materials[j].some =>
                        snapshots[s].objects[k].materials[j].uniform.albedo
                            = DefaultAlbedo

---------------------------------------------------------------------------
(* C3 *)

\* C3: every render call writes to the camera buffer a uniform whose view is
\* the snapshot's view and whose projection is the one computed in
\* Renderer::new; whatever render and resize calls came before, the projection
\* held by the camera buffer is the one computed at construction.
CameraWriteScopedToView ==
    /\ cameraBuffer.proj = ConstructionProj
    /\ Rendering =>
          /\ cameraBuffer = [view |-> LastScene.view, proj |-> ConstructionProj]
          /\ \E k \in Positions(LastTrace, "write_buffer") :
                /\ LastTrace[k].arg.buffer = renderer.view_proj.buffer
                /\ LastTrace[k].arg.data = cameraBuffer

\* A render call of a snapshot with a non-default view, after a resize to
\* another aspect ratio.
RenderOtherViewAfterResize ==
    /\ Rendering
    /\ LastScene.view # DefaultView
    /\ Aspect(surface_conf) # Aspect(init_conf)

---------------------------------------------------------------------------
(* C4 *)

NoBindGroup == create_bind_group([albedo |-> "none"], "none", 0)

RECURSIVE ClaimedMeshCommands(_, _)
\* For mesh i onwards: material i, mesh i's vertex and index buffers, one
\* indexed draw of its index count with one instance.
ClaimedMeshCommands(o, i) ==
    IF i > Len(o.meshes) THEN << >>
    ELSE << Cmd("set_bind_group", 2,
                IF i \in DOMAIN o.materials THEN o.materials[i] ELSE NoBindGroup),
            Cmd("set_vertex_buffer", 0, [buffer |-> o.meshes[i].vbuf]),
            Cmd("set_index_buffer", 0, [buffer |-> o.meshes[i].ibuf,
                                        format |-> "Index::format"]),
            Cmd("draw_indexed", 0, [indices |-> << 0, o.meshes[i].nelems >>,
                                    base_vertex |-> 0, instances |-> << 0, 1 >>]) >>
         \o ClaimedMeshCommands(o, i + 1)

RECURSIVE ClaimedObjectCommands(_)
ClaimedObjectCommands(objs) ==
    IF objs = << >> THEN << >>
    ELSE << Cmd("set_bind_group", 1, Head(objs).transform) >>
         \o ClaimedMeshCommands(Head(objs), 1)
         \o ClaimedObjectCommands(Tail(objs))

\* C4: the commands execute records are: the pipeline once, the camera binding
\* set once, then per snapshot object in order its transform binding set once
\* and per mesh in index order material i, mesh i's buffers and one indexed
\* draw of mesh i's index count.
ExecuteCommandSequence ==
    Rendering =>
        PassCommands(LastTrace)
            = << Cmd("set_pipeline", 0, renderer.forward_pass.pipeline),
                 Cmd("set_bind_group", 0, renderer.view_proj.bind_group) >>
              \o ClaimedObjectCommands(LastScene.objects)

---------------------------------------------------------------------------
(* C5 *)

MeshContent(m) == m.nelems
BindGroupContent(b) == [layout |-> b.layout, uniform |-> b.uniform]

\* What a snapshot holds, apart from which device resources hold it.
Content(snapshot) ==
    [ objects |->
        [ k \in DOMAIN snapshot.objects |->
            LET o == snapshot.objects[k]
            IN  [ meshes    |-> [i \in DOMAIN o.meshes |-> MeshContent(o.meshes[i])],
                  materials |-> [i \in DOMAIN o.materials |->
                                    BindGroupContent(o.materials[i])],
                  transform |-> BindGroupContent(o.transform) ] ],
      view |-> snapshot.view ]

\* The device resources a snapshot owns.
Resources(snapshot) ==
    UNION { { o.meshes[i].vbuf : i \in DOMAIN o.meshes }
            \cup { o.meshes[i].ibuf : i \in DOMAIN o.meshes }
            \cup { o.materials[i].id : i \in DOMAIN o.materials }
            \cup { o.transform.id }
          : o \in { snapshot.objects[k] : k \in DOMAIN snapshot.objects } }

\* A create_scene step: it leaves the Renderer and the camera buffer as they
\* were, leaves every earlier snapshot as it was, and returns a snapshot that
\* shares no resource with an earlier one or with the Renderer and has the
\* content of every earlier snapshot of the same Scene.
CreateSceneStepIsPure ==
    Len(snapshots') = Len(snapshots) + 1 =>
        LET new == snapshots'[Len(snapshots')]
        IN  /\ renderer' = renderer
            /\ cameraBuffer' = cameraBuffer
            /\ SubSeq(snapshots', 1, Len(snapshots)) = snapshots
            /\ Resources(new) \cap { renderer.view_proj.buffer,
                                     renderer.view_proj.bind_group.id } = {}
            /\ \A i \in DOMAIN snapshots :
                  /\ Resources(new) \cap Resources(snapshots[i]) = {}
                  /\ sources[i] = sources'[Len(snapshots')] =>
                        Content(new) = Content(snapshots[i])

\* C5: create_scene is referentially pure: a call changes no Renderer state
\* and no earlier snapshot, and two calls on one Scene return independent
\* snapshots of equal content.
CreateSceneIsPure == [][CreateSceneStepIsPure]_vars

\* Two snapshots of one Scene that has objects, meshes and materials.
TwoSnapshotsOfOneScene ==
    /\ Len(snapshots) = 2
    /\ sources[1] = sources[2]
    /\ Len(snapshots[2].objects) = 2
    /\ Resources(snapshots[1]) # {}

---------------------------------------------------------------------------
(* C6 *)

\* A resize step: the camera uniform data, buffer, layout and binding set, the
\* transform and material layouts and the camera buffer's contents are as
\* before it; the projection is the one computed for the configuration given
\* to new, and the Forward Pass is the one built for the new configuration.
ResizeStepKeepsCamera ==
    lastOp' = "resize" =>
        /\ renderer'.view_proj = renderer.view_proj
        /\ renderer'.transform_layout = renderer.transform_layout
        /\ renderer'.material_layout = renderer.material_layout
        /\ cameraBuffer' = cameraBuffer
        /\ renderer'.view_proj.data.proj = ConstructionProj
        /\ renderer'.forward_pass.depth_texture_view.width = surface_conf'.width
        /\ renderer'.forward_pass.depth_texture_view.height = surface_conf'.height
        /\ renderer'.forward_pass.pipeline.targets = << surface_conf'.format >>

\* C6: resize replaces only the Forward Pass: the camera uniform data with its
\* projection, the camera buffer, the camera binding set and the three layouts
\* are the same after resize as before, so the projection still reflects the
\* aspect ratio given to new and not that of the new configuration.
ResizeReplacesOnlyForwardPass == [][ResizeStepKeepsCamera]_vars

\* A resize to a configuration of another aspect ratio than the one given to new.
ResizedToOtherAspect ==
    /\ lastOp = "resize"
    /\ Aspect(surface_conf) # Aspect(init_conf)
    /\ renderer.forward_pass.depth_texture_view.width = surface_conf.width
    /\ renderer.view_proj.data.proj # perspective_lh(Aspect(surface_conf))

---------------------------------------------------------------------------
(* C7 *)

\* C7: within every render call the camera buffer write is issued before the
\* render pass that reads the camera binding set is opened, and exactly one
\* render pass is opened.
CameraWriteBeforePass ==
    Rendering =>
        /\ Cardinality(Positions(LastTrace, "begin_render_pass")) = 1
        /\ \E w \in Positions(LastTrace, "write_buffer") :
              /\ LastTrace[w].arg.buffer = renderer.view_proj.buffer
              /\ \A b \in Positions(LastTrace, "begin_render_pass") : w < b
        /\ \A k \in Positions(LastTrace, "set_bind_group") :
              LastTrace[k].arg = renderer.view_proj.bind_group =>
                  \E b \in Positions(LastTrace, "begin_render_pass") : b < k

\* A render call that recorded a draw.
RenderWithDraw ==
    /\ Rendering
    /\ Positions(LastTrace, "draw_indexed") # {}
    /\ ~panicked

---------------------------------------------------------------------------
(* C8 *)

\* A render step: everything of the Renderer but the camera buffer's contents
\* is as before it, and a render call on the snapshot the call before it
\* rendered, with no resize in between, records the same commands and writes
\* the same camera buffer contents.
RenderStepRepeats ==
    lastOp' = "render" =>
        /\ renderer' = renderer
        /\ snapshots' = snapshots
        /\ nextId' = nextId
        /\ frame'[1].n = 2 =>
              /\ frame'[1].trace = frame[1].trace
              /\ frame'[1].buffer = frame[1].buffer

---------------------------------------------------------------------------
(* C9 *)

\* C9: for every snapshot create_scene produces from any Scene, execute never
\* reads a material binding set at an index outside the object's materials
\* sequence (no render call panics on materials[i]).
MaterialAccessInRange == ~panicked

---------------------------------------------------------------------------
(* C10 *)

\* C10: the pipeline layout of every Forward Pass built by new or resize
\* orders the binding-set slots camera, transform, material, and execute binds
\* the camera binding set at slot 0, each object's transform binding set at
\* slot 1 and each submesh's material binding set at slot 2, each created
\* under the layout the pipeline layout places at that slot.
SlotOrderAgrees ==
    /\ renderer.forward_pass.pipeline.layout
          = << renderer.view_proj.layout, renderer.transform_layout,
               renderer.material_layout >>
    /\ Rendering =>
          \A k \in Positions(LastTrace, "set_bind_group") :
              LET c == LastTrace[k]
              IN  /\ c.slot \in {0, 1, 2}
                  /\ c.arg.layout = renderer.forward_pass.pipeline.layout[c.slot + 1]
                  /\ c.slot = 0 => c.arg = renderer.view_proj.bind_group
                  /\ c.slot = 1 =>
                        \E o \in DOMAIN LastScene.objects :
                            c.arg = LastScene.objects[o].transform
                  /\ c.slot = 2 =>
                        \E o \in DOMAIN LastScene.objects :
                            \E i \in DOMAIN LastScene.objects[o].materials :
                                c.arg = LastScene.objects[o].materials[i]

\* A render call after a resize that bound a binding set at each of the slots.
RenderBoundAllSlots ==
    /\ Rendering
    /\ surface_conf # init_conf
    /\ \A slot \in {0, 1, 2} :
          \E k \in Positions(LastTrace, "set_bind_group") : LastTrace[k].slot = slot

=============================================================================
